---- MODULE Spec2Model ----
(***************************************************************************)
(* Model of the notebook lab-chatbot-with-multi-query-retriever.ipynb.     *)
(*                                                                         *)
(* The notebook is glue code: it configures library objects and chains     *)
(* them.  Every definition below names the notebook line it models; where  *)
(* the line is a call into a library (JSONLoader, the text splitter,       *)
(* ElasticsearchStore, MultiQueryRetriever, the LCEL chain) the definition *)
(* models what that call does with the arguments the notebook passes and   *)
(* the library's defaults for the arguments it does not pass.              *)
(*                                                                         *)
(* Two specifications:                                                     *)
(*   Spec       the bulk import and the question-answering chain           *)
(*   SpecChunk  the loader and the text splitter (load_and_split)          *)
(*   SpecBatch  load_and_split over a file of several records              *)
(*   SpecMeta   metadata_func acting on the loader's metadata dictionary   *)
(***************************************************************************)
EXTENDS Integers, Sequences, FiniteSets

VARIABLES
    index,       \* the Elasticsearch index "elastic_ironhack": entries in insertion order
    imports,     \* how many times the bulk import cell has run
    status,      \* "idle" | "running" | "done" | "failed" : state of chain.invoke
    pc,          \* position in chain of the running request (1..Len(chain)+1)
    question,    \* the input of chain.invoke
    queries,     \* the lines returned by the query-expansion model call
    searched,    \* the queries the index was searched for, in order
    documents,   \* the retriever's output (merged documents)
    context,     \* the output of combine_documents
    prompt,      \* the filled LLM_CONTEXT_PROMPT: [context, question] or NoValue
    answer,      \* the value chain.invoke returns, or NoValue
    failures,    \* the external calls that failed during this request
    log,         \* the stages of this request that have finished, in order
    genCalls,    \* number of answer-generating model calls of this request
    record,      \* SpecChunk: the record of temp.json being loaded (content and other keys)
    chunk_size,  \* SpecChunk: chunk_size given to the text splitter
    chunk_overlap, \* SpecChunk: chunk_overlap given to the text splitter
    passages,    \* SpecChunk: result of load_and_split: [s, e, metadata], text = content[s..e]
    split_done,  \* SpecChunk: load_and_split has run
    batch,       \* SpecBatch: the records of temp.json, in file order
    load_i,      \* SpecBatch: number of records the loader has gone through
    loaded_docs, \* SpecBatch: the Documents the loader has built so far
    load_status, \* SpecBatch: "idle" | "loading" | "done" | "failed"
    split_docs,  \* SpecBatch: the list load_and_split returned (docs)
    meta_record, \* SpecMeta: the record passed to metadata_func
    meta_start,  \* SpecMeta: the content of the metadata dictionary before the call
    heap,        \* SpecMeta: the dictionaries that exist, by object identity
    meta_arg,    \* SpecMeta: identity of the dictionary passed as metadata
    meta_ret,    \* SpecMeta: identity of the dictionary returned (0: not returned yet)
    meta_done    \* SpecMeta: metadata_func has returned

pipeVars == <<index, imports, status, pc, question, queries, searched, documents,
              context, prompt, answer, failures, log, genCalls>>
chunkVars == <<record, chunk_size, chunk_overlap, passages, split_done>>
batchVars == <<batch, load_i, loaded_docs, load_status, split_docs>>
metaVars == <<meta_record, meta_start, heap, meta_arg, meta_ret, meta_done>>
vars == <<index, imports, status, pc, question, queries, searched, documents,
          context, prompt, answer, failures, log, genCalls,
          record, chunk_size, chunk_overlap, passages, split_done,
          batch, load_i, loaded_docs, load_status, split_docs,
          meta_record, meta_start, heap, meta_arg, meta_ret, meta_done>>

(***************************************************************************)
(* Bounds of the model.                                                    *)
(***************************************************************************)
NP == 3            \* number of passages produced by ingestion
NQ == 3            \* number of distinct query texts (questions and variants)
MaxVariants == 3   \* most lines the expansion model returns
MaxImports == 2    \* most runs of the bulk import cell
MaxBody == 5       \* longest record content, in tokens
MaxChunk == 4      \* largest chunk_size tried
MaxBatch == 3      \* largest number of records in a file

\* Program constants.
K == 4             \* as_retriever() default: search_kwargs k = 4 results per query
N == 3             \* number of variants the expansion prompt asks for

NoValue == [none |-> TRUE]

Passages == 1..NP
Queries == 1..NQ

Abs(x) == IF x < 0 THEN -x ELSE x

\* docs: the list of passages returned by loader.load_and_split (one per record here)
docs == [i \in 1..NP |-> i]

\* Relevance of passage p to query q (embedding similarity): texts are points on
\* a line, a nearer passage scores higher; several passages can tie.
Score(q, p) == NP + NQ - Abs(q - p)

Min(a, b) == IF a < b THEN a ELSE b

\* All sequences over S of length at most n.
SeqsUpTo(S, n) == UNION {[1..m -> S] : m \in 0..n}

(***************************************************************************)
(* Bulk import: vectorstore.from_documents(docs, embeddings, index_name=.. *)
(* ).  No ids are passed, so the store gives every added text a fresh      *)
(* generated id: each run adds one new entry per passage.                  *)
(***************************************************************************)
\* mutant: the import keys entries by passage identity, so a re-import overwrites
from_documents_upsert(idx, ds) ==
    IF idx = <<>>
    THEN [i \in 1..Len(ds) |-> [id |-> i, passage |-> ds[i]]]
    ELSE idx

from_documents(idx, ds) ==
    idx \o [i \in 1..Len(ds) |-> [id |-> Len(idx) + i, passage |-> ds[i]]]

(***************************************************************************)
(* vectorstore.as_retriever(): similarity search, the K best entries in    *)
(* descending score order, equal scores in insertion order.  The documents *)
(* returned carry the passage (page_content and metadata), not the entry   *)
(* id and not the score.                                                   *)
(***************************************************************************)
Rank(idx, q, i) ==
    Cardinality({j \in 1..Len(idx) :
        \/ Score(q, idx[j].passage) > Score(q, idx[i].passage)
        \/ /\ Score(q, idx[j].passage) = Score(q, idx[i].passage)
           /\ j < i})

Search(idx, q) ==
    [r \in 1..Min(K, Len(idx)) |->
        idx[CHOOSE i \in 1..Len(idx) : Rank(idx, q, i) = r - 1].passage]

(***************************************************************************)
(* MultiQueryRetriever.from_llm(vectorstore.as_retriever(), llm):          *)
(* include_original is not passed and defaults to False, so the queries    *)
(* searched are exactly the lines the expansion call returned.             *)
(***************************************************************************)
\* mutant: include_original = True
QueriesToSearch_with_original(q, lines) == Append(lines, q)

QueriesToSearch(q, lines) == lines

\* mutant: only the first query is searched
retrieve_documents_first_only(idx, qs) ==
    IF qs = <<>> THEN <<>> ELSE Search(idx, Head(qs)) \o <<>>

\* retrieve_documents: one search per query, in order, results concatenated.
RECURSIVE retrieve_documents(_, _)
retrieve_documents(idx, qs) ==
    IF qs = <<>> THEN <<>>
    ELSE Search(idx, Head(qs)) \o retrieve_documents(idx, Tail(qs))

\* mutant: no de-duplication
unique_union_none(ds) == ds

\* mutant: keep each document's last occurrence
unique_union_last(ds) ==
    LET F[i \in 0..Len(ds)] ==
            IF i = 0 THEN <<>>
            ELSE IF \E j \in (i+1)..Len(ds) : ds[j] = ds[i]
                 THEN F[i-1]
                 ELSE Append(F[i-1], ds[i])
    IN F[Len(ds)]

\* unique_union: keep each document's first occurrence, in order.
unique_union(ds) ==
    LET F[i \in 0..Len(ds)] ==
            IF i = 0 THEN <<>>
            ELSE IF \E j \in 1..(i-1) : ds[j] = ds[i]
                 THEN F[i-1]
                 ELSE Append(F[i-1], ds[i])
    IN F[Len(ds)]

(***************************************************************************)
(* Context assembly.  A text is a sequence of pieces; a piece is a literal *)
(* of a template or a field of a passage.                                  *)
(***************************************************************************)
Piece(kind, p) == [k |-> kind, p |-> p]

\* LLM_DOCUMENT_PROMPT: "\n    ---\n    SOURCE: {name}\n    {page_content}\n    ---\n    "
format_document(doc) ==
    << Piece("pre_SOURCE", 0), Piece("name", doc), Piece("newline_indent", 0),
       Piece("page_content", doc), Piece("post", 0) >>

document_separator == << Piece("separator", 0) >>

\* mutant: the separator follows every document, the last one too
RECURSIVE join_trailing(_, _)
join_trailing(sep, strs) ==
    IF strs = <<>> THEN <<>>
    ELSE strs[1] \o sep \o join_trailing(sep, Tail(strs))

RECURSIVE join(_, _)
join(sep, strs) ==
    IF strs = <<>> THEN <<>>
    ELSE IF Len(strs) = 1 THEN strs[1]
    ELSE strs[1] \o sep \o join(sep, Tail(strs))

combine_documents(ds) ==
    LET doc_strings == [i \in 1..Len(ds) |-> format_document(ds[i])]
    IN join(document_separator, doc_strings)

(***************************************************************************)
(* The chain.  _context runs the retriever and combine_documents on the    *)
(* input for the context key and passes the input through for the question *)
(* key; its output fills LLM_CONTEXT_PROMPT, which is sent to llm.         *)
(***************************************************************************)
retriever == << "generate_queries", "retrieve_documents" >>
context_branch == retriever \o << "combine_documents" >>
chain == context_branch \o << "LLM_CONTEXT_PROMPT", "llm" >>

RunnablePassthrough(input) == input

\* mutant: the question slot receives the first expanded variant
ContextOutput_variant(input, ctx) ==
    [context |-> ctx, question |-> IF queries # <<>> THEN queries[1] ELSE input]

\* the mapping _context hands to the prompt
ContextOutput(input, ctx) == [context |-> ctx, question |-> RunnablePassthrough(input)]

Answers == {"answer_a", "answer_b"}

Stage == IF status = "running" /\ pc \in 1..Len(chain) THEN chain[pc] ELSE "none"

(***************************************************************************)
(* Init and the actions of Spec.                                           *)
(***************************************************************************)
RequestCleared ==
    /\ pc = 0
    /\ question = 0
    /\ queries = <<>>
    /\ searched = <<>>
    /\ documents = <<>>
    /\ context = <<>>
    /\ prompt = NoValue
    /\ answer = NoValue
    /\ failures = {}
    /\ log = <<>>
    /\ genCalls = 0

ChunkIdle ==
    /\ record = [content |-> <<>>, name |-> 1]
    /\ chunk_size = 1
    /\ chunk_overlap = 0
    /\ passages = <<>>
    /\ split_done = FALSE

BatchIdle ==
    /\ batch = <<>>
    /\ load_i = 0
    /\ loaded_docs = <<>>
    /\ load_status = "idle"
    /\ split_docs = <<>>

MetaIdle ==
    /\ meta_record = <<>>
    /\ meta_start = <<>>
    /\ heap = <<>>
    /\ meta_arg = 0
    /\ meta_ret = 0
    /\ meta_done = FALSE

Init ==
    /\ index = <<>>
    /\ imports = 0
    /\ status = "idle"
    /\ RequestCleared
    /\ ChunkIdle
    /\ BatchIdle
    /\ MetaIdle

\* the bulk import cell
BulkImport ==
    /\ status = "idle"
    /\ imports < MaxImports
    /\ index' = from_documents(index, docs)
    /\ imports' = imports + 1
    /\ UNCHANGED <<status, pc, question, queries, searched, documents, context,
                   prompt, answer, failures, log, genCalls>>
    /\ UNCHANGED <<chunkVars, batchVars, metaVars>>

\* ans = chain.invoke(question); the retriever exists once the import cell has run
Invoke ==
    /\ status = "idle"
    /\ imports >= 1
    /\ \E q \in Queries : question' = q
    /\ status' = "running"
    /\ pc' = 1
    /\ UNCHANGED <<index, imports, queries, searched, documents, context,
                   prompt, answer, failures, log, genCalls>>
    /\ UNCHANGED <<chunkVars, batchVars, metaVars>>

\* generate_queries: the expansion model call returns some lines
Expand ==
    /\ Stage = "generate_queries"
    /\ \E lines \in SeqsUpTo(Queries, MaxVariants) : queries' = lines
    /\ log' = Append(log, "generate_queries")
    /\ pc' = pc + 1
    /\ UNCHANGED <<index, imports, status, question, searched, documents, context,
                   prompt, answer, failures, genCalls>>
    /\ UNCHANGED <<chunkVars, batchVars, metaVars>>

\* mutant: a failed expansion call is caught and the request goes on
ExpandFail_degrade ==
    /\ Stage = "generate_queries"
    /\ failures' = failures \cup {"expansion"}
    /\ queries' = <<>>
    /\ log' = Append(log, "generate_queries")
    /\ pc' = pc + 1
    /\ UNCHANGED <<index, imports, status, question, searched, documents,
                   context, prompt, answer, genCalls>>
    /\ UNCHANGED <<chunkVars, batchVars, metaVars>>

\* the expansion model call raises: nothing in the chain catches it
ExpandFail ==
    /\ Stage = "generate_queries"
    /\ failures' = failures \cup {"expansion"}
    /\ status' = "failed"
    /\ UNCHANGED <<index, imports, pc, question, queries, searched, documents,
                   context, prompt, answer, log, genCalls>>
    /\ UNCHANGED <<chunkVars, batchVars, metaVars>>

\* retrieve_documents followed by unique_union
Retrieve ==
    /\ Stage = "retrieve_documents"
    /\ searched' = QueriesToSearch(question, queries)
    /\ \E found \in {retrieve_documents(index, QueriesToSearch(question, queries))} :
          documents' = unique_union(found)
    /\ log' = Append(log, "retrieve_documents")
    /\ pc' = pc + 1
    /\ UNCHANGED <<index, imports, status, question, queries, context,
                   prompt, answer, failures, genCalls>>
    /\ UNCHANGED <<chunkVars, batchVars, metaVars>>

\* mutant: a failed search is caught and replaced by an empty result
RetrieveFail_swallowed ==
    /\ Stage = "retrieve_documents"
    /\ QueriesToSearch(question, queries) # <<>>
    /\ failures' = failures \cup {"search"}
    /\ searched' = QueriesToSearch(question, queries)
    /\ documents' = <<>>
    /\ log' = Append(log, "retrieve_documents")
    /\ pc' = pc + 1
    /\ UNCHANGED <<index, imports, status, question, queries, context,
                   prompt, answer, genCalls>>
    /\ UNCHANGED <<chunkVars, batchVars, metaVars>>

\* a search of the index raises (service unavailable): nothing catches it
RetrieveFail ==
    /\ Stage = "retrieve_documents"
    /\ QueriesToSearch(question, queries) # <<>>
    /\ failures' = failures \cup {"search"}
    /\ status' = "failed"
    /\ UNCHANGED <<index, imports, pc, question, queries, searched, documents,
                   context, prompt, answer, log, genCalls>>
    /\ UNCHANGED <<chunkVars, batchVars, metaVars>>

\* mutant: the assembler refuses an empty list of documents
Combine_fail_on_empty ==
    /\ Stage = "combine_documents"
    /\ IF documents = <<>>
       THEN /\ failures' = failures \cup {"assembly"}
            /\ status' = "failed"
            /\ UNCHANGED <<context, log, pc>>
       ELSE /\ context' = combine_documents(documents)
            /\ log' = Append(log, "combine_documents")
            /\ pc' = pc + 1
            /\ UNCHANGED <<failures, status>>
    /\ UNCHANGED <<index, imports, question, queries, searched, documents,
                   prompt, answer, genCalls>>
    /\ UNCHANGED <<chunkVars, batchVars, metaVars>>

\* retriever | _combine_documents
Combine ==
    /\ Stage = "combine_documents"
    /\ context' = combine_documents(documents)
    /\ log' = Append(log, "combine_documents")
    /\ pc' = pc + 1
    /\ UNCHANGED <<index, imports, status, question, queries, searched, documents,
                   prompt, answer, failures, genCalls>>
    /\ UNCHANGED <<chunkVars, batchVars, metaVars>>

\* _context | LLM_CONTEXT_PROMPT
FillPrompt ==
    /\ Stage = "LLM_CONTEXT_PROMPT"
    /\ prompt' = ContextOutput(question, context)
    /\ log' = Append(log, "LLM_CONTEXT_PROMPT")
    /\ pc' = pc + 1
    /\ UNCHANGED <<index, imports, status, question, queries, searched, documents,
                   context, answer, failures, genCalls>>
    /\ UNCHANGED <<chunkVars, batchVars, metaVars>>

\* LLM_CONTEXT_PROMPT | llm : the answer-generating model call returns
Generate ==
    /\ Stage = "llm"
    /\ genCalls' = genCalls + 1
    /\ \E a \in Answers : answer' = [text |-> a]
    /\ log' = Append(log, "llm")
    /\ pc' = pc + 1
    /\ status' = "done"
    /\ UNCHANGED <<index, imports, question, queries, searched, documents,
                   context, prompt, failures>>
    /\ UNCHANGED <<chunkVars, batchVars, metaVars>>

\* the answer-generating model call raises
GenerateFail ==
    /\ Stage = "llm"
    /\ genCalls' = genCalls + 1
    /\ failures' = failures \cup {"generation"}
    /\ status' = "failed"
    /\ UNCHANGED <<index, imports, pc, question, queries, searched, documents,
                   context, prompt, answer, log>>
    /\ UNCHANGED <<chunkVars, batchVars, metaVars>>

\* chain.invoke has returned or raised; the notebook goes on to the next cell
Return ==
    /\ status \in {"done", "failed"}
    /\ status' = "idle"
    /\ pc' = 0
    /\ question' = 0
    /\ queries' = <<>>
    /\ searched' = <<>>
    /\ documents' = <<>>
    /\ context' = <<>>
    /\ prompt' = NoValue
    /\ answer' = NoValue
    /\ failures' = {}
    /\ log' = <<>>
    /\ genCalls' = 0
    /\ UNCHANGED <<index, imports>>
    /\ UNCHANGED <<chunkVars, batchVars, metaVars>>

Next ==
    \/ BulkImport
    \/ Invoke
    \/ Expand
    \/ ExpandFail
    \/ Retrieve
    \/ RetrieveFail
    \/ Combine
    \/ FillPrompt
    \/ Generate
    \/ GenerateFail
    \/ Return

Spec == Init /\ [][Next]_vars

(***************************************************************************)
(* The loader and the text splitter (SpecChunk).                           *)
(*                                                                         *)
(* A text is a sequence of tokens, each one character: a letter, a space   *)
(* or a newline; the splitter's length function counts them.  A piece of   *)
(* the content is the interval [s, e] of its positions, so that passages   *)
(* can be compared by position.                                            *)
(***************************************************************************)
Chars == {"a", "sp", "nl"}
IsWs(c) == c \in {"sp", "nl"}

\* RecursiveCharacterTextSplitter's default separators: "\n\n", "\n", " ", ""
Separators == << <<"nl", "nl">>, <<"nl">>, <<"sp">>, <<>> >>

Iv(s, e) == [s |-> s, e |-> e]
IvLen(iv) == iv.e - iv.s + 1
None == [s |-> 0, e |-> -1]

\* mutant: every key of the record is copied, content included
metadata_func_all_keys(rec, metadata) ==
    [k \in (DOMAIN metadata) \cup (DOMAIN rec) |->
        IF k \in DOMAIN rec THEN rec[k] ELSE metadata[k]]

\* metadata_func: copy every key of the record except content into metadata
metadata_func(rec, metadata) ==
    [k \in (DOMAIN metadata) \cup ((DOMAIN rec) \ {"content"}) |->
        IF k \in (DOMAIN rec) \ {"content"} THEN rec[k] ELSE metadata[k]]

\* JSONLoader: page_content = record[content_key], metadata = metadata_func(record,
\* {source, seq_num}); 7 stands for the path of temp.json
LoaderMetadata(seq_num) == [source |-> 7, seq_num |-> seq_num]
LoadDocument(rec, seq_num) ==
    [page_content |-> rec.content, metadata |-> metadata_func(rec, LoaderMetadata(seq_num))]

\* str.strip() of text[iv]: None when nothing but whitespace is left
Strip(text, iv) ==
    LET nonws == {i \in iv.s..iv.e : ~IsWs(text[i])}
    IN IF nonws = {} THEN None
       ELSE Iv(CHOOSE i \in nonws : \A j \in nonws : i <= j,
               CHOOSE i \in nonws : \A j \in nonws : i >= j)

\* starts of the leftmost non-overlapping occurrences of sep in text[pos..e]
RECURSIVE MatchStarts(_, _, _, _)
MatchStarts(text, pos, e, sep) ==
    IF pos + Len(sep) - 1 > e THEN <<>>
    ELSE IF SubSeq(text, pos, pos + Len(sep) - 1) = sep
         THEN <<pos>> \o MatchStarts(text, pos + Len(sep), e, sep)
         ELSE MatchStarts(text, pos + 1, e, sep)

\* _split_text_with_regex with keep_separator: every split after the first
\* starts with the separator; empty splits are dropped; "" splits into characters
split_text_with_regex(text, iv, sep) ==
    IF sep = <<>>
    THEN [i \in 1..IvLen(iv) |-> Iv(iv.s + i - 1, iv.s + i - 1)]
    ELSE LET ms == MatchStarts(text, iv.s, iv.e, sep)
             n == Len(ms)
             first == Iv(iv.s, IF n = 0 THEN iv.e ELSE ms[1] - 1)
             rest == [k \in 1..n |-> Iv(ms[k], IF k < n THEN ms[k+1] - 1 ELSE iv.e)]
         IN SelectSeq(<<first>> \o rest, LAMBDA x : IvLen(x) > 0)

\* mutant: only the first split of current_doc is kept
join_docs_first(text, cur) ==
    IF cur = <<>> THEN None ELSE Strip(text, cur[1])

\* _join_docs: the splits of current_doc are adjacent, their join is one interval
join_docs(text, cur) ==
    IF cur = <<>> THEN None ELSE Strip(text, Iv(cur[1].s, cur[Len(cur)].e))

\* mutant: the loop ignores chunk_overlap and drops splits only to make room
RECURSIVE PopFront_room(_, _, _, _, _)
PopFront_room(cur, total, len, size, overlap) ==
    IF total + len > size /\ total > 0
    THEN PopFront_room(Tail(cur), total - IvLen(cur[1]), len, size, overlap)
    ELSE [cur |-> cur, total |-> total]

\* the while loop of _merge_splits: drop splits from the front of current_doc
RECURSIVE PopFront(_, _, _, _, _)
PopFront(cur, total, len, size, overlap) ==
    IF total > overlap \/ (total + len > size /\ total > 0)
    THEN PopFront(Tail(cur), total - IvLen(cur[1]), len, size, overlap)
    ELSE [cur |-> cur, total |-> total]

\* _merge_splits(splits, "") from split i on
RECURSIVE MergeLoop(_, _, _, _, _, _, _, _)
MergeLoop(text, splits, i, out, cur, total, size, overlap) ==
    IF i > Len(splits)
    THEN LET doc == join_docs(text, cur)
         IN IF doc = None THEN out ELSE Append(out, doc)
    ELSE LET d == splits[i]
             len == IvLen(d)
         IN IF total + len > size
            THEN IF cur # <<>>
                 THEN LET doc == join_docs(text, cur)
                          out2 == IF doc = None THEN out ELSE Append(out, doc)
                          kept == PopFront(cur, total, len, size, overlap)
                      IN MergeLoop(text, splits, i + 1, out2, Append(kept.cur, d),
                                   kept.total + len, size, overlap)
                 ELSE MergeLoop(text, splits, i + 1, out, Append(cur, d),
                                total + len, size, overlap)
            ELSE MergeLoop(text, splits, i + 1, out, Append(cur, d),
                           total + len, size, overlap)

merge_splits(text, splits, size, overlap) ==
    MergeLoop(text, splits, 1, <<>>, <<>>, 0, size, overlap)

\* does sep occur in text[iv]
Occurs(text, iv, sep) == MatchStarts(text, iv.s, iv.e, sep) # <<>>

\* index of the separator _split_text picks: the first that is "" or occurs
PickSeparator(text, iv, seps) ==
    CHOOSE k \in 1..Len(seps) :
        /\ seps[k] = <<>> \/ Occurs(text, iv, seps[k])
        /\ \A j \in 1..(k-1) : ~(seps[j] = <<>> \/ Occurs(text, iv, seps[j]))

\* _split_text(text, separators)
RECURSIVE split_text(_, _, _, _, _)
RECURSIVE SplitLoop(_, _, _, _, _, _, _, _)
SplitLoop(text, splits, i, good, final, new_seps, size, overlap) ==
    IF i > Len(splits)
    THEN IF good = <<>> THEN final
         ELSE final \o merge_splits(text, good, size, overlap)
    ELSE LET sp == splits[i]
         IN IF IvLen(sp) < size
            THEN SplitLoop(text, splits, i + 1, Append(good, sp), final,
                           new_seps, size, overlap)
            ELSE LET flushed == IF good = <<>> THEN final
                                ELSE final \o merge_splits(text, good, size, overlap)
                     more == IF new_seps = <<>> THEN <<sp>>
                             ELSE split_text(text, sp, new_seps, size, overlap)
                 IN SplitLoop(text, splits, i + 1, <<>>, flushed \o more,
                              new_seps, size, overlap)

split_text(text, iv, seps, size, overlap) ==
    LET k == PickSeparator(text, iv, seps)
        new_seps == IF seps[k] = <<>> THEN <<>> ELSE SubSeq(seps, k + 1, Len(seps))
        splits == split_text_with_regex(text, iv, seps[k])
    IN SplitLoop(text, splits, 1, <<>>, <<>>, new_seps, size, overlap)

\* loader.load_and_split(text_splitter): load the record, split its content,
\* and give every chunk a copy of the document's metadata
load_and_split(rec, seq_num, size, overlap) ==
    LET doc == LoadDocument(rec, seq_num)
        text == doc.page_content
        chunks == split_text(text, Iv(1, Len(text)), Separators, size, overlap)
    IN [i \in 1..Len(chunks) |->
          [s |-> chunks[i].s, e |-> chunks[i].e, metadata |-> doc.metadata]]

Bodies == SeqsUpTo(Chars, MaxBody)
RecordKeys == { [name |-> 1], [name |-> 2, source |-> 9] }
Records == { [k \in (DOMAIN m) \cup {"content"} |->
                 IF k = "content" THEN b ELSE m[k]] : b \in Bodies, m \in RecordKeys }

InitChunk ==
    /\ index = <<>>
    /\ imports = 0
    /\ status = "idle"
    /\ RequestCleared
    /\ record \in Records
    /\ chunk_size \in 1..MaxChunk
    /\ chunk_overlap \in 0..chunk_size
    /\ passages = <<>>
    /\ split_done = FALSE
    /\ BatchIdle
    /\ MetaIdle

LoadAndSplit ==
    /\ ~split_done
    /\ \E res \in {load_and_split(record, 1, chunk_size, chunk_overlap) \o <<>>} :
          passages' = res
    /\ split_done' = TRUE
    /\ UNCHANGED <<record, chunk_size, chunk_overlap>>
    /\ UNCHANGED <<pipeVars, batchVars, metaVars>>

NextChunk == LoadAndSplit

SpecChunk == InitChunk /\ [][NextChunk]_vars

\* the text of a passage
PassageText(psg) == SubSeq(record.content, psg.s, psg.e)

(***************************************************************************)
(* load_and_split over a file of several records (SpecBatch).              *)
(*                                                                         *)
(* JSONLoader.load goes through the records that jq_schema ".[]" yields,   *)
(* in file order, and builds the list of Documents; load_and_split hands   *)
(* the finished list to the text splitter.  content_key = "content" with   *)
(* the default text_content = True: a record whose content is missing      *)
(* (None) makes the loader raise ValueError, and nothing in the cell       *)
(* catches it.                                                             *)
(***************************************************************************)
HasContent(rec) == "content" \in DOMAIN rec

\* the records a file is made of: two well-formed ones and one lacking content
BatchRecords ==
    { [content |-> <<"a", "sp", "a">>, name |-> 1],
      [content |-> <<"a", "a">>, name |-> 2],
      [name |-> 3] }
Batches == SeqsUpTo(BatchRecords, MaxBatch)

\* TextSplitter.split_documents: the chunks of every Document, in the order of
\* the Documents, each with a copy of its Document's metadata
RECURSIVE split_documents(_, _, _)
split_documents(documents_, size, overlap) ==
    IF documents_ = <<>> THEN <<>>
    ELSE LET doc == Head(documents_)
             text == doc.page_content
             chunks == split_text(text, Iv(1, Len(text)), Separators, size, overlap)
         IN [i \in 1..Len(chunks) |->
                [s |-> chunks[i].s, e |-> chunks[i].e, metadata |-> doc.metadata]]
            \o split_documents(Tail(documents_), size, overlap)

InitBatch ==
    /\ index = <<>>
    /\ imports = 0
    /\ status = "idle"
    /\ RequestCleared
    /\ record = [content |-> <<>>, name |-> 1]
    /\ chunk_size \in 1..MaxChunk
    /\ chunk_overlap \in 0..chunk_size
    /\ passages = <<>>
    /\ split_done = FALSE
    /\ batch \in Batches
    /\ load_i = 0
    /\ loaded_docs = <<>>
    /\ load_status = "loading"
    /\ split_docs = <<>>
    /\ MetaIdle

\* one turn of the loader's loop on a record that has its content
LoadRecord ==
    /\ load_status = "loading"
    /\ load_i < Len(batch)
    /\ HasContent(batch[load_i + 1])
    /\ loaded_docs' = Append(loaded_docs, LoadDocument(batch[load_i + 1], load_i + 1))
    /\ load_i' = load_i + 1
    /\ UNCHANGED <<batch, load_status, split_docs>>
    /\ UNCHANGED <<pipeVars, chunkVars, metaVars>>

\* mutant: a record without content is passed over and the loop goes on
LoadRecordFail_skip ==
    /\ load_status = "loading"
    /\ load_i < Len(batch)
    /\ ~HasContent(batch[load_i + 1])
    /\ load_i' = load_i + 1
    /\ UNCHANGED <<batch, loaded_docs, load_status, split_docs>>
    /\ UNCHANGED <<pipeVars, chunkVars, metaVars>>

\* one turn of the loader's loop on a record without content: the loader
\* raises, the exception leaves load_and_split, the list being built is lost
\* and docs is never assigned
LoadRecordFail ==
    /\ load_status = "loading"
    /\ load_i < Len(batch)
    /\ ~HasContent(batch[load_i + 1])
    /\ load_status' = "failed"
    /\ loaded_docs' = <<>>
    /\ UNCHANGED <<batch, load_i, split_docs>>
    /\ UNCHANGED <<pipeVars, chunkVars, metaVars>>

\* the loader is through the file: the Documents go to the text splitter and
\* load_and_split returns the chunks
SplitDocuments ==
    /\ load_status = "loading"
    /\ load_i = Len(batch)
    /\ \E res \in {split_documents(loaded_docs, chunk_size, chunk_overlap) \o <<>>} :
          split_docs' = res
    /\ load_status' = "done"
    /\ UNCHANGED <<batch, load_i, loaded_docs>>
    /\ UNCHANGED <<pipeVars, chunkVars, metaVars>>

NextBatch ==
    \/ LoadRecord
    \/ LoadRecordFail
    \/ SplitDocuments

SpecBatch == InitBatch /\ [][NextBatch]_vars

(***************************************************************************)
(* metadata_func acting on the loader's metadata dictionary (SpecMeta).    *)
(*                                                                         *)
(* A dictionary is an object: heap maps the identity of each dictionary    *)
(* that exists to its content.  The record and the metadata dictionary     *)
(* are distinct objects, as they are when the loader calls the function.   *)
(***************************************************************************)
MetaKeys == {"content", "name", "source", "seq_num"}
MetaValues == {"x", "y"}
\* every mapping from some of the keys to the values
Mappings == UNION { [ks -> MetaValues] : ks \in SUBSET MetaKeys }

InitMeta ==
    /\ index = <<>>
    /\ imports = 0
    /\ status = "idle"
    /\ RequestCleared
    /\ ChunkIdle
    /\ BatchIdle
    /\ meta_record \in Mappings
    /\ meta_start \in Mappings
    /\ heap = [o \in {1} |-> meta_start]
    /\ meta_arg = 1
    /\ meta_ret = 0
    /\ meta_done = FALSE

\* the call metadata_func(record, metadata): the loop assigns into the
\* dictionary it was given and the function returns that dictionary
CallMetadataFunc ==
    /\ ~meta_done
    /\ heap' = [heap EXCEPT ![meta_arg] = metadata_func(meta_record, heap[meta_arg])]
    /\ meta_ret' = meta_arg
    /\ meta_done' = TRUE
    /\ UNCHANGED <<meta_record, meta_start, meta_arg>>
    /\ UNCHANGED <<pipeVars, chunkVars, batchVars>>

NextMeta == CallMetadataFunc

SpecMeta == InitMeta /\ [][NextMeta]_vars

(***************************************************************************)
(* Claims about the bulk import and the chain (checked under Spec).        *)
(***************************************************************************)
Finished(stage) == \E i \in 1..Len(log) : log[i] = stage
Retrieved == Finished("retrieve_documents")
Range(f) == {f[i] : i \in DOMAIN f}

\* C1: the merged documents the retriever hands to combine_documents hold no
\* passage twice, however many searched queries returned it.
C1_MergedHasNoDuplicate ==
    \A i, j \in 1..Len(documents) : i # j => documents[i] # documents[j]

C1_Witness ==
    /\ Retrieved
    /\ Len(searched) >= 2
    /\ \E p \in Passages :
        /\ p \in Range(Search(index, searched[1]))
        /\ p \in Range(Search(index, searched[2]))
        /\ p \in Range(documents)

\* C2 (as stated): with zero variants the merged result equals the single-query
\* search result for the original question.
C2_FallbackEqualsSingleQuery ==
    (Retrieved /\ queries = <<>>) =>
        documents = unique_union(Search(index, question))

\* C2 (amended): with zero variants nothing is searched and the merged result
\* is empty; the original question is not searched.
C2_NoVariantsNoResults ==
    (Retrieved /\ queries = <<>>) => (searched = <<>> /\ documents = <<>>)

C2_Witness ==
    /\ Retrieved
    /\ queries = <<>>
    /\ Search(index, question) # <<>>

\* the best score any searched query that found p gave it
BestScore(p) ==
    LET found == {i \in 1..Len(searched) : p \in Range(Search(index, searched[i]))}
        best == CHOOSE i \in found :
                    \A j \in found : Score(searched[i], p) >= Score(searched[j], p)
    IN Score(searched[best], p)

\* C3 (as stated): the merged documents are delivered in descending order of
\* the best score any query gave them.
C3_DescendingBestScore ==
    Retrieved =>
        \A i, j \in 1..Len(documents) :
            i < j => BestScore(documents[i]) >= BestScore(documents[j])

\* the result list of every searched query, in search order
RECURSIVE ResultsOf(_, _)
ResultsOf(idx, qs) ==
    IF qs = <<>> THEN <<>>
    ELSE << Search(idx, Head(qs)) \o <<>> >> \o ResultsOf(idx, Tail(qs))

\* place of p's first appearance in the result lists res: the first list that
\* holds it, and its first position in that list
FirstPlace(res, p) ==
    LET qi == CHOOSE i \in 1..Len(res) :
                /\ p \in Range(res[i])
                /\ \A j \in 1..(i-1) : p \notin Range(res[j])
        r == CHOOSE k \in 1..Len(res[qi]) :
                /\ res[qi][k] = p
                /\ \A m \in 1..(k-1) : res[qi][m] # p
    IN qi * (K + 1) + r

\* C3 (amended): the merged documents are delivered in order of first
\* appearance: the first query's results in search order, then what each later
\* query adds; every passage some query returned is delivered.
C3_FirstAppearanceOrder ==
    Retrieved =>
        \A res \in {ResultsOf(index, searched)} :
            /\ Range(documents) = UNION {Range(res[i]) : i \in 1..Len(res)}
            /\ \A i, j \in 1..Len(documents) :
                  i < j => FirstPlace(res, documents[i]) < FirstPlace(res, documents[j])

C3_Witness ==
    /\ Retrieved
    /\ Len(searched) >= 2
    /\ \E i, j \in 1..Len(documents) :
          i < j /\ BestScore(documents[i]) < BestScore(documents[j])

\* C4: the context is the wrapped passages in input order, each once, with
\* the separator between consecutive ones and nowhere else.
C4_ContextIsWrappedPassagesInOrder ==
    Finished("combine_documents") =>
        LET n == Len(documents)
            W == 5
            at(i) == (i - 1) * (W + 1)
        IN /\ Len(context) = IF n = 0 THEN 0 ELSE n * W + (n - 1)
           /\ \A i \in 1..n :
                SubSeq(context, at(i) + 1, at(i) + W) =
                    << [k |-> "pre_SOURCE", p |-> 0],
                       [k |-> "name", p |-> documents[i]],
                       [k |-> "newline_indent", p |-> 0],
                       [k |-> "page_content", p |-> documents[i]],
                       [k |-> "post", p |-> 0] >>
           /\ \A x \in 1..Len(context) :
                (context[x].k = "separator") <=> (x % (W + 1) = 0)

C4_Witness ==
    /\ Finished("combine_documents")
    /\ Len(documents) >= 2

\* C5: the stages finish in the order expansion, retrieval, context assembly,
\* prompt, generation; the answer model is called at most once, exactly once
\* for a request that returns, and only with the assembled context and the
\* original question in the prompt slots.
C5_StageOrderAndPromptSlots ==
    /\ log = SubSeq(<< "generate_queries", "retrieve_documents", "combine_documents",
                       "LLM_CONTEXT_PROMPT", "llm" >>, 1, Len(log))
    /\ genCalls <= 1
    /\ status = "done" => (genCalls = 1 /\ answer # NoValue)
    /\ genCalls >= 1 =>
          /\ Finished("combine_documents")
          /\ prompt = [context |-> context, question |-> question]
          /\ context = combine_documents(documents)

C5_Witness ==
    /\ status = "done"
    /\ genCalls = 1
    /\ \E i \in 1..Len(queries) : queries[i] # question
    /\ documents # <<>>

\* C6: a failed search or a failed generation call ends the request in a
\* failure; after a failed search no context is assembled and the answer
\* model is not called; after either failure no answer is returned.
C6_FailureAbortsRequest ==
    /\ "search" \in failures =>
          /\ status = "failed"
          /\ genCalls = 0
          /\ ~Finished("combine_documents")
          /\ prompt = NoValue
          /\ answer = NoValue
    /\ "generation" \in failures =>
          /\ status = "failed"
          /\ answer = NoValue
    /\ answer # NoValue => failures = {}

C6_Witness ==
    /\ "search" \in failures
    /\ searched = <<>>
    /\ queries # <<>>

\* C7 (as stated): a failed expansion call, or fewer than N variants, does not
\* abort the request, and retrieval then uses the original question alone.
C7_ExpansionDegradesToOriginal ==
    /\ "expansion" \in failures => status # "failed"
    /\ (Retrieved /\ Len(queries) < N) => searched = << question >>

\* C7 (amended): a failed expansion call aborts the request before any search
\* or generation; fewer than N variants do not abort it: retrieval is enabled
\* and searches exactly the variants returned.
C7_ExpansionFailureAbortsFewerVariantsProceed ==
    /\ "expansion" \in failures =>
          /\ status = "failed"
          /\ log = <<>>
          /\ searched = <<>>
          /\ genCalls = 0
          /\ answer = NoValue
    /\ (Finished("generate_queries") /\ Len(queries) < N) =>
          /\ "expansion" \notin failures
          /\ Stage = "retrieve_documents" => ENABLED Retrieve
          /\ Retrieved => searched = queries

C7_Witness ==
    /\ status = "done"
    /\ Len(queries) < N
    /\ queries # <<>>
    /\ searched # << question >>

\* C8 (as stated): after a repeated import every search returns what it
\* returned after the first import.
C8_ImportIdempotent ==
    imports >= 1 =>
        \A q \in Queries : Search(index, q) = Search(from_documents(<<>>, docs), q)

\* C8 (amended): every import adds one entry per passage under a fresh id, so
\* the index holds as many entries of a passage as imports have run.
C8_ImportAddsEntries ==
    /\ \A p \in Passages :
          Cardinality({i \in 1..Len(index) : index[i].passage = p}) = imports
    /\ \A i, j \in 1..Len(index) : i # j => index[i].id # index[j].id

C8_Witness ==
    /\ imports = 2
    /\ \E q \in Queries : \E i, j \in 1..Len(Search(index, q)) :
          i # j /\ Search(index, q)[i] = Search(index, q)[j]

\* the orders in which n searches can be taken
Orders(n) == {f \in [1..n -> 1..n] : \A i, j \in 1..n : i # j => f[i] # f[j]}

RECURSIVE Flatten(_)
Flatten(lists) ==
    IF lists = <<>> THEN <<>> ELSE Head(lists) \o Flatten(Tail(lists))

\* what the retriever delivers when the result lists res of the searches are
\* merged in the order f
MergedIn(res, f) == unique_union(Flatten([i \in 1..Len(res) |-> res[f[i]]]))

\* C12 (as stated): in whatever order the searches of a request are taken, the
\* merged result delivered to combine_documents is the same.
C12_MergeOrderIndependent ==
    Retrieved =>
        \A res \in {ResultsOf(index, searched)} :
            \A f \in Orders(Len(res)) :
                \A merged \in {MergedIn(res, f)} : merged = documents

\* C12 (amended): in whatever order the searches are taken the merged result
\* holds the same passages, each once; the order of delivery is that of first
\* appearance and follows the order of the queries (it starts with the best
\* result of the query taken first).
C12_MergeSameMembershipAnyOrder ==
    Retrieved =>
        \A res \in {ResultsOf(index, searched)} :
            \A f \in Orders(Len(res)) :
                \A merged \in {MergedIn(res, f)} :
                    /\ Range(merged) = Range(documents)
                    /\ Len(merged) = Len(documents)
                    /\ merged # <<>> => merged[1] = res[f[1]][1]

C12_Witness ==
    /\ Retrieved
    /\ Len(searched) >= 2
    /\ \E f \in Orders(Len(searched)) :
          /\ MergedIn(ResultsOf(index, searched), f) # documents
          /\ Range(MergedIn(ResultsOf(index, searched), f)) = Range(documents)

\* C14: an empty merged set does not stop the request: combine_documents
\* returns the empty text without an error, the prompt is filled with the empty
\* context and the original question, and the answer model is called once.
C14_EmptyMergedSetStillAnswers ==
    (Retrieved /\ documents = <<>>) =>
        /\ "assembly" \notin failures
        /\ Stage = "combine_documents" => ENABLED Combine
        /\ Finished("combine_documents") => context = <<>>
        /\ Stage = "LLM_CONTEXT_PROMPT" => ENABLED FillPrompt
        /\ Finished("LLM_CONTEXT_PROMPT") =>
              prompt = [context |-> <<>>, question |-> question]
        /\ Stage = "llm" => ENABLED Generate
        /\ status \in {"done", "failed"} => genCalls = 1
        /\ status = "failed" => failures = {"generation"}

C14_Witness ==
    /\ Retrieved
    /\ documents = <<>>
    /\ status = "done"
    /\ genCalls = 1
    /\ context = <<>>
    /\ prompt = [context |-> <<>>, question |-> question]

(***************************************************************************)
(* Claims about the loader and the splitter (checked under SpecChunk).     *)
(***************************************************************************)
Content == record.content
NonBlank == \E i \in 1..Len(Content) : ~IsWs(Content[i])

\* the passage carries the document's metadata: every key of the record but
\* content, with the record's value, and the loader's seq_num
CarriesMetadata(psg) ==
    /\ \A k \in (DOMAIN record) \ {"content"} :
          k \in DOMAIN psg.metadata /\ psg.metadata[k] = record[k]
    /\ "content" \notin DOMAIN psg.metadata
    /\ "seq_num" \in DOMAIN psg.metadata
    /\ "source" \in DOMAIN psg.metadata

Overlap(p1, p2) == IF p1.e >= p2.s THEN p1.e - p2.s + 1 ELSE 0

\* no passage starts or ends before its predecessor does
InBodyOrder ==
    \A i \in 1..(Len(passages) - 1) :
        passages[i].s <= passages[i+1].s /\ passages[i].e <= passages[i+1].e

LoadFinished == load_status \in {"done", "failed"}
HasBadRecord == \E i \in 1..Len(batch) : ~HasContent(batch[i])
\* the records that have a content with something other than whitespace in it
GoodRecords ==
    {i \in 1..Len(batch) :
        /\ HasContent(batch[i])
        /\ \E j \in 1..Len(batch[i].content) : ~IsWs(batch[i].content[j])}
\* some returned chunk comes from record i
ReturnedFor(i) == \E j \in 1..Len(split_docs) : split_docs[j].metadata.seq_num = i

\* C11 (as stated): when a record of the file lacks the content key, that
\* record is skipped and every other record is still loaded, chunked and
\* returned.
C11_BadRecordSkipped ==
    (LoadFinished /\ HasBadRecord) => \A i \in GoodRecords : ReturnedFor(i)

\* C11 (amended): a record lacking the content key makes load_and_split fail
\* as a whole: nothing is returned, not even the chunks of the records that
\* came before it.  Only a file whose records all have their content is
\* loaded, and then every record is chunked and returned, in file order, each
\* chunk with the metadata of its own record.
C11_BadRecordAbortsBatch ==
    LoadFinished =>
        IF HasBadRecord
        THEN /\ load_status = "failed"
             /\ split_docs = <<>>
             /\ loaded_docs = <<>>
        ELSE /\ load_status = "done"
             /\ \A i \in GoodRecords : ReturnedFor(i)
             /\ \A j \in 1..Len(split_docs) :
                   /\ split_docs[j].metadata.seq_num \in 1..Len(batch)
                   /\ split_docs[j].metadata.name
                          = batch[split_docs[j].metadata.seq_num].name
                   /\ j > 1 => split_docs[j - 1].metadata.seq_num
                                   <= split_docs[j].metadata.seq_num

\* a well-formed record was gone through before the loader met the bad one,
\* and nothing was returned
C11_Witness ==
    /\ load_status = "failed"
    /\ load_i >= 1
    /\ GoodRecords # {}
    /\ split_docs = <<>>

====
